---- MODULE Spec2Model ----
(***************************************************************************)
(* Model of lottery_notifier.py: the two-phase polling controller (main,   *)
(* get_lottery_result) and the two notifiers (send_dingtalk_message,       *)
(* send_email).  The wall clock is counted in seconds from 00:00:00 of     *)
(* day 0 (Asia/Shanghai); day 0 is the calendar day BaseDate.                *)
(***************************************************************************)
EXTENDS Integers, Sequences, FiniteSets, TLC

\* ---------------------------------------------------------------- constants
PHASE1_RETRIES == 5
PHASE1_INTERVAL == 120
PHASE2_RETRIES == 30
PHASE2_INTERVAL == 10
EMAIL_MAX_RETRIES == 5
EMAIL_RETRY_DELAY == 3

\* ------------------------------------------------------------------- bounds
\* longest time one HTTP / SMTP call is taken to last (seconds)
MaxCallDur == 7

CallDurations == {0, MaxCallDur}

\* time one SMTP session (connect, login, sendmail) is taken to last
SmtpDurations == {MaxCallDur}

\* ------------------------------------------------------------- wall clock
SecondsPerDay == 24 * 3600

HMS(h, m, s) == h * 3600 + m * 60 + s

\* the calendar day the model's clock starts in
BaseDate == [Y |-> 2024, mo |-> 5, d |-> 1]

\* datetime.date() of a clock value: the calendar date of its day
DateOfClock(t) == [Y |-> BaseDate.Y, mo |-> BaseDate.mo, d |-> BaseDate.d + (t \div SecondsPerDay)]

\* current_time.replace(hour=21, minute=31, second=31, microsecond=0)
phase2_start(t) == (t \div SecondsPerDay) * SecondsPerDay + HMS(21, 31, 31)

\* end of the dense window named by main's comments (21:31:31 - 21:34:59)
phase2_deadline(t) == (t \div SecondsPerDay) * SecondsPerDay + HMS(21, 34, 59)

\* process start times (day 0)
StartTimes == {HMS(21, 10, 0), HMS(21, 33, 0), HMS(23, 50, 0)}

\* ------------------------------------------------------------ API payloads
\* a JSON string value of a record field, as its characters; absent key
Str(s) == [present |-> TRUE, val |-> s]
Absent == [present |-> FALSE, val |-> <<>>]

\* an openTime value: text laid out as "Y-mo-d H:Mi:S", other text, or absent
TimeText(Y, mo, d, H, Mi, S) ==
    [present |-> TRUE, layout |-> TRUE, Y |-> Y, mo |-> mo, d |-> d, H |-> H, Mi |-> Mi, S |-> S]
GarbageTime ==
    [present |-> TRUE, layout |-> FALSE, Y |-> 0, mo |-> 0, d |-> 0, H |-> 0, Mi |-> 0, S |-> 0]
AbsentTime ==
    [present |-> FALSE, layout |-> FALSE, Y |-> 0, mo |-> 0, d |-> 0, H |-> 0, Mi |-> 0, S |-> 0]

Draw(code, zodiac, wave, openTime, expect) ==
    [openCode |-> code, zodiac |-> zodiac, wave |-> wave, openTime |-> openTime, expect |-> expect]

Code123 == Str(<<"1", ",", "2", ",", "3">>)
Zodiac3 == Str(<<"R", "a", "t", ",", "O", "x", ",", "T", "i", "g", "e", "r">>)
Wave3 == Str(<<"r", "e", "d", ",", "b", "l", "u", "e", ",", "g", "r", "e", "e", "n">>)
Expect123 == Str(<<"1", "2", "3">>)

Today2130 == TimeText(2024, 5, 1, 21, 30, 0)
Yesterday2130 == TimeText(2024, 4, 30, 21, 30, 0)
Tomorrow0001 == TimeText(2024, 5, 2, 0, 1, 0)
Month13 == TimeText(2024, 13, 1, 21, 30, 0)
Feb30 == TimeText(2024, 2, 30, 21, 30, 0)

DrawToday == Draw(Code123, Zodiac3, Wave3, Today2130, Expect123)
DrawYesterday == Draw(Code123, Zodiac3, Wave3, Yesterday2130, Expect123)
DrawTomorrow == Draw(Code123, Zodiac3, Wave3, Tomorrow0001, Expect123)
DrawMonth13 == Draw(Code123, Zodiac3, Wave3, Month13, Expect123)
DrawFeb30 == Draw(Code123, Zodiac3, Wave3, Feb30, Expect123)
DrawGarbageTime == Draw(Code123, Zodiac3, Wave3, GarbageTime, Expect123)
DrawNoTime == Draw(Code123, Zodiac3, Wave3, AbsentTime, Expect123)
DrawNoCode == Draw(Absent, Zodiac3, Wave3, Today2130, Expect123)
DrawEmptyCode == Draw(Str(<<>>), Zodiac3, Wave3, Today2130, Expect123)
DrawNoZodiac == Draw(Code123, Absent, Wave3, Today2130, Expect123)
DrawNoWave == Draw(Code123, Zodiac3, Absent, Yesterday2130, Expect123)

Draws ==
    {DrawToday, DrawYesterday, DrawTomorrow, DrawMonth13, DrawFeb30,
     DrawGarbageTime, DrawNoTime, DrawNoCode, DrawEmptyCode, DrawNoZodiac,
     DrawNoWave}

\* an element of the JSON array: an object (a draw) or something else
Obj(r) == [dict |-> TRUE, rec |-> r]
NonObj == [dict |-> FALSE, rec |-> DrawNoCode]

\* the retry bound of the email loop, one short
email_bound_short == EMAIL_MAX_RETRIES - 1

\* range(1, EMAIL_MAX_RETRIES + 1): the last attempt number of send_email
email_bound == EMAIL_MAX_RETRIES

\* what requests.get / raise_for_status / response.json give on one attempt
Resp(kind, items) == [kind |-> kind, items |-> items]
NoResp == Resp("none", <<>>)

Responses ==
    {Resp("network_error", <<>>), Resp("http_error", <<>>), Resp("bad_json", <<>>),
     Resp("json_object", <<>>), Resp("json_list", <<>>), Resp("json_list", <<NonObj>>)}
    \cup {Resp("json_list", <<Obj(r)>>) : r \in Draws}
    \cup {Resp("json_list", <<Obj(DrawYesterday), Obj(DrawToday)>>)}

\* ----------------------------------------------------- get_lottery_result
IsLeap(Y) == (Y % 4 = 0 /\ Y % 100 # 0) \/ Y % 400 = 0

DaysInMonth(Y, mo) ==
    IF mo = 2 THEN (IF IsLeap(Y) THEN 29 ELSE 28)
    ELSE IF mo \in {4, 6, 9, 11} THEN 30 ELSE 31

\* datetime.strptime(result['openTime'], '%Y-%m-%d %H:%M:%S') returns a value
\* (does not raise KeyError / ValueError)
strptime_ok(t) ==
    /\ t.present
    /\ t.layout
    /\ t.Y \in 1..9999
    /\ t.mo \in 1..12
    /\ t.d \in 1..DaysInMonth(t.Y, t.mo)
    /\ t.H \in 0..23
    /\ t.Mi \in 0..59
    /\ t.S \in 0..59

\* open_time.date()
open_date(t) == [Y |-> t.Y, mo |-> t.mo, d |-> t.d]

\* the format check without its openCode test
has_openCode_unchecked(r) == r.openTime.present

\* Python truthiness of data[0].get('openCode')
has_openCode(r) == r.openCode.present /\ Len(r.openCode.val) > 0

max_retries(ph) == IF ph = 1 THEN PHASE1_RETRIES ELSE PHASE2_RETRIES

\* the two phases' intervals taken the wrong way round
retry_interval_swapped(ph) == IF ph = 1 THEN PHASE2_INTERVAL ELSE PHASE1_INTERVAL

retry_interval(ph) == IF ph = 1 THEN PHASE1_INTERVAL ELSE PHASE2_INTERVAL

\* the second-phase test without its date comparison
is_today_any_date(t, cur) == t.present

\* second-phase test of line 70
is_today(t, cur) == open_date(t) = DateOfClock(cur)

\* one pass of the try block: "accept" (return result), "not_today",
\* "invalid" (format warning) or "exception" (caught by except Exception)
attempt_outcome(resp, ph, cur) ==
    IF resp.kind \in {"network_error", "http_error", "bad_json"} THEN "exception"
    ELSE IF resp.kind # "json_list" \/ Len(resp.items) = 0 THEN "invalid"
    ELSE IF ~resp.items[1].dict THEN "exception"
    ELSE IF ~has_openCode(resp.items[1].rec) THEN "invalid"
    ELSE IF ~strptime_ok(resp.items[1].rec.openTime) THEN "exception"
    ELSE IF ph = 1 THEN "accept"
    ELSE IF is_today(resp.items[1].rec.openTime, cur) THEN "accept"
    ELSE "not_today"

\* the loop running one attempt too many
retry_follows_one_more(att, ph) == att <= max_retries(ph)

\* for-loop / "if attempt < max_retries": another attempt follows this one
retry_follows(att, ph) == att < max_retries(ph)

\* ------------------------------------------------------------- formatters
\* Text is a sequence of characters, each a one-character string; a CJK
\* character is written by its code point ("U+7EA2").

\* whitespace removed by str.strip() and separating the tokens of a line
IsSpace(c) == c \in {" ", "\t", "\n"}

\* str.split(sep)
RECURSIVE split(_, _)
split(s, sep) ==
    IF \A i \in 1..Len(s) : s[i] # sep THEN <<s>>
    ELSE LET i == CHOOSE k \in 1..Len(s) : s[k] = sep /\ \A j \in 1..(k - 1) : s[j] # sep
         IN <<SubSeq(s, 1, i - 1)>> \o split(SubSeq(s, i + 1, Len(s)), sep)

RECURSIVE lstrip(_)
lstrip(s) == IF Len(s) > 0 /\ IsSpace(s[1]) THEN lstrip(Tail(s)) ELSE s

RECURSIVE rstrip(_)
rstrip(s) == IF Len(s) > 0 /\ IsSpace(s[Len(s)]) THEN rstrip(SubSeq(s, 1, Len(s) - 1)) ELSE s

\* str.strip()
strip(s) == rstrip(lstrip(s))

UpperCase == <<"A", "B", "C", "D", "E", "F", "G", "H", "I", "J", "K", "L", "M",
               "N", "O", "P", "Q", "R", "S", "T", "U", "V", "W", "X", "Y", "Z">>
LowerCase == <<"a", "b", "c", "d", "e", "f", "g", "h", "i", "j", "k", "l", "m",
               "n", "o", "p", "q", "r", "s", "t", "u", "v", "w", "x", "y", "z">>

\* str.lower()
lower(s) ==
    [i \in 1..Len(s) |->
        IF \E k \in 1..26 : UpperCase[k] = s[i]
        THEN LowerCase[CHOOSE k \in 1..26 : UpperCase[k] = s[i]]
        ELSE s[i]]

\* str.ljust(w)
ljust(s, w) == IF w > Len(s) THEN s \o [i \in 1..(w - Len(s)) |-> " "] ELSE s

\* "".join(parts)
RECURSIVE join(_)
join(parts) == IF Len(parts) = 0 THEN <<>> ELSE Head(parts) \o join(Tail(parts))

\* max(len(x) for x in parts)
max_len(parts) ==
    CHOOSE m \in {Len(parts[i]) : i \in 1..Len(parts)} :
        \A i \in 1..Len(parts) : Len(parts[i]) <= m

Red == <<"r", "e", "d">>
Blue == <<"b", "l", "u", "e">>
Green == <<"g", "r", "e", "e", "n">>

\* the lookup without its table: the tag is shown as it came
wave_mapping_none(w) == w

\* wave_mapping.get(wave_lower, wave_lower)
wave_mapping(w) ==
    IF w = Red THEN <<"U+7EA2">>
    ELSE IF w = Blue THEN <<"U+84DD">>
    ELSE IF w = Green THEN <<"U+7EFF">>
    ELSE w

\* wave_colors.get(wave_lower, '#CCCCCC')
wave_colors(w) ==
    IF w = Red THEN "#FF0000"
    ELSE IF w = Blue THEN "#0000FF"
    ELSE IF w = Green THEN "#00FF00"
    ELSE "#CCCCCC"

\* columns as wide as their widest entry, without separation
column_width_tight(w) == w

\* width of a column of the text message: max width + 2
column_width(w) == w + 2

DigitChars == <<"0", "1", "2", "3", "4", "5", "6", "7", "8", "9">>
Pad2(n) == <<DigitChars[((n \div 10) % 10) + 1], DigitChars[(n % 10) + 1]>>
Pad4(n) == Pad2(n \div 100) \o Pad2(n % 100)

\* the text "%Y-%m-%d %H:%M:%S" of date and time of day
time_text(Y, mo, d, H, Mi, S) ==
    Pad4(Y) \o <<"-">> \o Pad2(mo) \o <<"-">> \o Pad2(d) \o <<" ">>
        \o Pad2(H) \o <<":">> \o Pad2(Mi) \o <<":">> \o Pad2(S)

\* datetime.now(beijing_tz).strftime('%Y-%m-%d %H:%M:%S') at clock value t
strftime(t) ==
    time_text(DateOfClock(t).Y, DateOfClock(t).mo, DateOfClock(t).d,
              (t % SecondsPerDay) \div 3600, (t % 3600) \div 60, t % 60)

\* the characters of result['openTime']
open_time_text(ot) == time_text(ot.Y, ot.mo, ot.d, ot.H, ot.Mi, ot.S)

OpenTimeLabel == <<"U+958B", "U+734E", "U+6642", "U+9593", "U+FF1A">>
ExpectLabel == <<"U+671F", "U+865F", "U+FF1A">>
ExpectSuffix == <<"U+671F">>
NotifyLabel == <<"U+901A", "U+77E5", "U+6642", "U+9593", "U+FF1A">>

\* format_dingtalk_message(result), with datetime.now() = t
format_dingtalk_message(r, t) ==
    LET numbers == split(r.openCode.val, ",")
        zodiacs == split(r.zodiac.val, ",")
        waves == split(r.wave.val, ",")
        chinese_waves == [i \in 1..Len(waves) |-> wave_mapping(lower(strip(waves[i])))]
        aligned_numbers ==
            [i \in 1..Len(numbers) |-> ljust(numbers[i], column_width(max_len(numbers)))]
        aligned_waves ==
            [i \in 1..Len(chinese_waves) |->
                ljust(chinese_waves[i], column_width(max_len(chinese_waves)))]
        aligned_zodiacs ==
            [i \in 1..Len(zodiacs) |-> ljust(zodiacs[i], column_width(max_len(zodiacs)))]
    IN join(aligned_numbers) \o <<"\n">>
        \o join(aligned_waves) \o <<"\n">>
        \o join(aligned_zodiacs) \o <<"\n", "\n">>
        \o OpenTimeLabel \o open_time_text(r.openTime)
        \o ExpectLabel \o r.expect.val \o ExpectSuffix \o <<"\n">>
        \o NotifyLabel \o strftime(t)

Min(a, b) == IF a < b THEN a ELSE b

\* format_email_content(result), with datetime.now() = t: the number/zodiac
\* items and the three values put into the fixed HTML template
format_email_content(r, t) ==
    LET numbers == split(r.openCode.val, ",")
        zodiacs == split(r.zodiac.val, ",")
        waves == split(r.wave.val, ",")
        n == Min(Len(numbers), Min(Len(waves), Len(zodiacs)))
    IN [number_items |->
            [i \in 1..n |->
                [color |-> wave_colors(lower(strip(waves[i]))),
                 font_size |-> IF Len(numbers[i]) <= 2 THEN "24px" ELSE "18px",
                 num |-> numbers[i],
                 zodiac |-> zodiacs[i]]],
        openTime |-> open_time_text(r.openTime),
        expect |-> r.expect.val \o ExpectSuffix,
        notification_time |-> strftime(t)]

\* format_dingtalk_message raises (KeyError on a missing field)
format_dingtalk_raises(r) ==
    ~r.openCode.present \/ ~r.zodiac.present \/ ~r.wave.present
        \/ ~r.openTime.present \/ ~r.expect.present

\* format_email_content raises (KeyError on a missing field)
format_email_raises(r) ==
    ~r.openCode.present \/ ~r.zodiac.present \/ ~r.wave.present
        \/ ~r.openTime.present \/ ~r.expect.present

\* ------------------------------------------------------------- send_email
SmtpOutcomes == {"ok", "auth_error", "connect_error", "protocol_error", "unknown_error"}

\* the retry loop without its break: a sent message is followed by a retry
email_next_no_break(outcome, att) ==
    IF att < EMAIL_MAX_RETRIES THEN "sleep" ELSE "return"

\* what the retry loop does after one attempt: "return" or "sleep"
email_next(outcome, att) ==
    IF outcome = "ok" THEN "return"
    ELSE IF att < email_bound THEN "sleep"
    ELSE "return"

\* -------------------------------------------------- send_dingtalk_message
PostOutcomes == {"ok", "network_error", "http_error"}

\* ------------------------------------------------------------------- main
\* main returning normally where it should call exit(1)
exit_no_result_normal == 1 - 1

\* exit status of the process when main has no phase-2 result
exit_no_result == 1

\* main going on to phase 2 without the gap wait
wait_seconds_none(cur) == cur - cur

\* seconds main sleeps between the phases
wait_seconds(cur) ==
    IF cur < phase2_start(cur) THEN phase2_start(cur) - cur ELSE 0

\* ------------------------------------------------------------------ state
VARIABLES
    pc,                \* position of the process
    now,               \* wall clock
    main_current_time, \* main's current_time (line 346)
    glr_current_time,  \* get_lottery_result's current_time (line 34)
    phase,             \* argument of the running get_lottery_result
    attempt,           \* loop variable of get_lottery_result
    result,            \* <<>> (None) or <<record>>: the accepted result
    acceptedPhase,     \* phase that returned the result, 0 if none
    lastResp,          \* response of the latest fetch attempt
    lastOutcome,       \* outcome of the latest fetch attempt
    lastFetchAt,       \* clock when the latest fetch attempt started
    fetches,           \* number of fetch attempts made, per phase
    sleeps,            \* number of inter-attempt sleeps, per phase
    gapNow,            \* clock when main decided about the gap wait, -1 before
    gapSlept,          \* seconds slept in the gap wait, -1 before
    dispatches,        \* times main entered send_dingtalk_message
    chatPosts,         \* requests.post calls made
    chatReturn,        \* return value of send_dingtalk_message
    emailAttempt,      \* loop variable of send_email
    emailAttempts,     \* SMTP attempts made
    emailsSent,        \* SMTP attempts that completed
    emailSleeps,       \* sleeps of send_email
    emailReturn,       \* return value of send_email
    exitStatus,        \* exit status of the process, -1 while running
    message,           \* text built by format_dingtalk_message, <<>> before
    body               \* <<body>> built by format_email_content, <<>> before

vars ==
    <<pc, now, main_current_time, glr_current_time, phase, attempt, result,
      acceptedPhase, lastResp, lastOutcome, lastFetchAt, fetches, sleeps,
      gapNow, gapSlept, dispatches, chatPosts, chatReturn, emailAttempt,
      emailAttempts, emailsSent, emailSleeps, emailReturn, exitStatus,
      message, body>>

fetchVars == <<lastResp, lastOutcome, lastFetchAt, fetches>>
gapVars == <<gapNow, gapSlept>>
chatVars == <<dispatches, chatPosts, chatReturn>>
emailVars == <<emailAttempt, emailAttempts, emailsSent, emailSleeps, emailReturn>>
fmtVars == <<message, body>>

Init ==
    /\ pc = "start"
    /\ now \in StartTimes
    /\ main_current_time = 0
    /\ glr_current_time = 0
    /\ phase = 0
    /\ attempt = 0
    /\ result = <<>>
    /\ acceptedPhase = 0
    /\ lastResp = NoResp
    /\ lastOutcome = "none"
    /\ lastFetchAt = -1
    /\ fetches = [p \in 1..2 |-> 0]
    /\ sleeps = [p \in 1..2 |-> 0]
    /\ gapNow = -1
    /\ gapSlept = -1
    /\ dispatches = 0
    /\ chatPosts = 0
    /\ chatReturn = "none"
    /\ emailAttempt = 0
    /\ emailAttempts = 0
    /\ emailsSent = 0
    /\ emailSleeps = 0
    /\ emailReturn = "none"
    /\ exitStatus = -1
    /\ message = <<>>
    /\ body = <<>>

\* main, lines 345-351: capture current_time, call get_lottery_result(1)
MainStart ==
    /\ pc = "start"
    /\ main_current_time' = now
    /\ glr_current_time' = now
    /\ phase' = 1
    /\ attempt' = 1
    /\ pc' = "fetch"
    /\ UNCHANGED <<now, result, acceptedPhase, fetchVars, sleeps, gapVars, chatVars,
                   emailVars, exitStatus, fmtVars>>

\* get_lottery_result, lines 46-81: one attempt of the loop
Fetch ==
    /\ pc = "fetch"
    /\ \E resp \in Responses, dur \in CallDurations :
        LET out == attempt_outcome(resp, phase, glr_current_time) IN
        /\ lastResp' = resp
        /\ lastOutcome' = out
        /\ lastFetchAt' = now
        /\ now' = now + dur
        /\ fetches' = [fetches EXCEPT ![phase] = @ + 1]
        /\ IF out = "accept"
           THEN /\ result' = <<resp.items[1].rec>>
                /\ acceptedPhase' = phase
                /\ pc' = "got_result"
           ELSE /\ UNCHANGED <<result, acceptedPhase>>
                /\ pc' = IF retry_follows(attempt, phase) THEN "sleep" ELSE "no_result"
    /\ UNCHANGED <<main_current_time, glr_current_time, phase, attempt, sleeps, gapVars,
                   chatVars, emailVars, exitStatus, fmtVars>>

\* get_lottery_result, lines 81-83: time.sleep(retry_interval), next attempt
RetrySleep ==
    /\ pc = "sleep"
    /\ now' = now + retry_interval(phase)
    /\ sleeps' = [sleeps EXCEPT ![phase] = @ + 1]
    /\ attempt' = attempt + 1
    /\ pc' = "fetch"
    /\ UNCHANGED <<main_current_time, glr_current_time, phase, result, acceptedPhase,
                   fetchVars, gapVars, chatVars, emailVars, exitStatus, fmtVars>>

\* main, lines 361-372: phase 1 returned None; gap wait, then phase 2
GapWait ==
    /\ pc = "no_result"
    /\ phase = 1
    /\ gapNow' = now
    /\ gapSlept' = wait_seconds(main_current_time)
    /\ now' = now + wait_seconds(main_current_time)
    /\ glr_current_time' = now'
    /\ phase' = 2
    /\ attempt' = 1
    /\ pc' = "fetch"
    /\ UNCHANGED <<main_current_time, result, acceptedPhase, fetchVars, sleeps, chatVars,
                   emailVars, exitStatus, fmtVars>>

\* main, lines 379-381: phase 2 returned None; exit(1)
ExitNoResult ==
    /\ pc = "no_result"
    /\ phase = 2
    /\ exitStatus' = exit_no_result
    /\ pc' = "failed"
    /\ UNCHANGED <<now, main_current_time, glr_current_time, phase, attempt, result,
                   acceptedPhase, fetchVars, sleeps, gapVars, chatVars, emailVars, fmtVars>>

\* send_dingtalk_message, lines 247-283 (called at 356 / 376)
SendDingtalk ==
    /\ pc = "got_result"
    /\ dispatches' = dispatches + 1
    /\ IF format_dingtalk_raises(result[1])
       THEN /\ pc' = "crashed"
            /\ exitStatus' = 1
            /\ UNCHANGED <<now, chatPosts, chatReturn, message>>
       ELSE /\ message' = format_dingtalk_message(result[1], now)
            /\ \E outcome \in PostOutcomes, dur \in CallDurations :
                /\ now' = now + dur
                /\ chatReturn' = IF outcome = "ok" THEN "True" ELSE "False"
            /\ chatPosts' = chatPosts + 1
            /\ pc' = "email"
            /\ UNCHANGED exitStatus
    /\ UNCHANGED <<main_current_time, glr_current_time, phase, attempt, result,
                   acceptedPhase, fetchVars, sleeps, gapVars, emailVars, body>>

\* send_email, lines 285-307: build the message, enter the retry loop
SendEmailBegin ==
    /\ pc = "email"
    /\ IF format_email_raises(result[1])
       THEN /\ pc' = "crashed"
            /\ exitStatus' = 1
            /\ UNCHANGED <<emailAttempt, body>>
       ELSE /\ body' = <<format_email_content(result[1], now)>>
            /\ pc' = "email_try"
            /\ emailAttempt' = 1
            /\ UNCHANGED exitStatus
    /\ UNCHANGED <<now, main_current_time, glr_current_time, phase, attempt, result,
                   acceptedPhase, fetchVars, sleeps, gapVars, chatVars, emailAttempts,
                   emailsSent, emailSleeps, emailReturn, message>>

\* send_email, lines 309-341, and main's return (358-359 / 378): one attempt
EmailTry ==
    /\ pc = "email_try"
    /\ \E outcome \in SmtpOutcomes, dur \in SmtpDurations :
        /\ now' = now + dur
        /\ emailAttempts' = emailAttempts + 1
        /\ emailsSent' = IF outcome = "ok" THEN emailsSent + 1 ELSE emailsSent
        /\ IF email_next(outcome, emailAttempt) = "sleep"
           THEN /\ pc' = "email_sleep"
                /\ UNCHANGED <<emailReturn, exitStatus>>
           ELSE /\ pc' = "done"
                /\ emailReturn' = IF outcome = "ok" THEN "True" ELSE "False"
                /\ exitStatus' = 0
    /\ UNCHANGED <<main_current_time, glr_current_time, phase, attempt, result,
                   acceptedPhase, fetchVars, sleeps, gapVars, chatVars, emailAttempt,
                   emailSleeps, fmtVars>>

\* send_email, lines 331-333: time.sleep(EMAIL_RETRY_DELAY), next attempt
EmailSleep ==
    /\ pc = "email_sleep"
    /\ now' = now + EMAIL_RETRY_DELAY
    /\ emailSleeps' = emailSleeps + 1
    /\ emailAttempt' = emailAttempt + 1
    /\ pc' = "email_try"
    /\ UNCHANGED <<main_current_time, glr_current_time, phase, attempt, result,
                   acceptedPhase, fetchVars, sleeps, gapVars, chatVars, emailAttempts,
                   emailsSent, emailReturn, exitStatus, fmtVars>>

Next ==
    \/ MainStart
    \/ Fetch
    \/ RetrySleep
    \/ GapWait
    \/ ExitNoResult
    \/ SendDingtalk
    \/ SendEmailBegin
    \/ EmailTry
    \/ EmailSleep

Spec == Init /\ [][Next]_vars

\* ------------------------------------------------ the formatters on their own
\* openCode, zodiac and wave texts handed to the formatters
FmtCodes ==
    {<<"1", ",", "2", ",", "3">>,
     <<"0", "1", ",", "1", "2">>,
     <<"7">>,
     <<"1", ",", ",", "3">>,
     <<"1", "0", "0", ",", "2", ",", "3">>,
     <<"1", ",", "2", ",", "3", ",">>,
     <<"1", ",", "2", ",", "3", ",", "4", "9">>}

FmtZodiacs ==
    {<<"R", "a", "t", ",", "O", "x", ",", "T", "i", "g", "e", "r">>,
     <<"R", ",", "O">>,
     <<"R">>,
     <<"a", " ", "b", ",", "O", ",", "T">>,
     <<",", "O", ",", "T">>,
     <<"R", ",", "O", ",", "T", ",", "x">>}

FmtWaves ==
    {<<"r", "e", "d", ",", "b", "l", "u", "e", ",", "g", "r", "e", "e", "n">>,
     <<"R", "e", "d", ",", " ", "B", "L", "U", "E">>,
     <<"g", "r", "e", "e", "n">>,
     <<"r", "e", "d", ",", ",", "g", "r", "e", "e", "n">>,
     <<"p", "i", "n", "k", ",", "r", "e", "d", ",", "b", "l", "u", "e">>,
     <<"R", "E", "D", ",", "b", "l", "u", "e", ",", "g", "r", "e", "e", "n", ",", "r", "e", "d">>}

FmtInit ==
    /\ pc = "format"
    /\ now = HMS(21, 32, 5)
    /\ \E c \in FmtCodes, z \in FmtZodiacs, w \in FmtWaves :
          result = <<Draw(Str(c), Str(z), Str(w), Today2130, Expect123)>>
    /\ main_current_time = 0
    /\ glr_current_time = 0
    /\ phase = 0
    /\ attempt = 0
    /\ acceptedPhase = 0
    /\ lastResp = NoResp
    /\ lastOutcome = "none"
    /\ lastFetchAt = -1
    /\ fetches = [p \in 1..2 |-> 0]
    /\ sleeps = [p \in 1..2 |-> 0]
    /\ gapNow = -1
    /\ gapSlept = -1
    /\ dispatches = 0
    /\ chatPosts = 0
    /\ chatReturn = "none"
    /\ emailAttempt = 0
    /\ emailAttempts = 0
    /\ emailsSent = 0
    /\ emailSleeps = 0
    /\ emailReturn = "none"
    /\ exitStatus = -1
    /\ message = <<>>
    /\ body = <<>>

\* format_dingtalk_message(result)
FormatText ==
    /\ pc = "format"
    /\ message' = format_dingtalk_message(result[1], now)
    /\ pc' = "format_html"
    /\ UNCHANGED <<now, main_current_time, glr_current_time, phase, attempt, result,
                   acceptedPhase, fetchVars, sleeps, gapVars, chatVars, emailVars,
                   exitStatus, body>>

\* format_email_content(result)
FormatHtml ==
    /\ pc = "format_html"
    /\ body' = <<format_email_content(result[1], now)>>
    /\ pc' = "formatted"
    /\ UNCHANGED <<now, main_current_time, glr_current_time, phase, attempt, result,
                   acceptedPhase, fetchVars, sleeps, gapVars, chatVars, emailVars,
                   exitStatus, message>>

FmtNext == FormatText \/ FormatHtml

SpecFmt == FmtInit /\ [][FmtNext]_vars

TypeOK ==
    /\ pc \in {"start", "fetch", "sleep", "no_result", "got_result", "email",
               "email_try", "email_sleep", "done", "failed", "crashed",
               "format", "format_html", "formatted"}
    /\ phase \in 0..2
    /\ exitStatus \in {-1, 0, 1}

\* ----------------------------------------------------------------- claims
Terminal == {"done", "failed", "crashed"}
Dispatching == {"got_result", "email", "email_try", "email_sleep", "done", "crashed"}

\* the first element of a response is a record with a non-empty openCode
non_empty(resp) ==
    /\ resp.kind = "json_list"
    /\ Len(resp.items) > 0
    /\ resp.items[1].dict
    /\ has_openCode(resp.items[1].rec)

Max(a, b) == IF a > b THEN a ELSE b

\* C1: in every run dispatch is entered at most once, at most one chat POST
\* is made and at most one email is sent; while send_email can still make
\* another attempt, every attempt made so far has failed.
C1_AtMostOneNotification ==
    /\ dispatches <= 1
    /\ chatPosts <= 1
    /\ emailsSent <= 1
    /\ pc \in {"email_try", "email_sleep"} => emailsSent = 0
    /\ emailsSent = 1 => pc = "done"

C1_Witness ==
    /\ pc = "done"
    /\ chatPosts = 1
    /\ emailsSent = 1
    /\ emailAttempts >= 2

\* C2 (as claimed): a phase-1 attempt whose response is non-empty (first
\* record with a non-empty openCode) is accepted whatever its openTime is,
\* and the run goes to dispatch with that record: no later attempt, no gap
\* wait, no phase 2.
C2_Phase1AcceptsAnyOpenTime ==
    (phase = 1 /\ fetches[1] >= 1 /\ non_empty(lastResp)) =>
        /\ lastOutcome = "accept"
        /\ result = <<lastResp.items[1].rec>>
        /\ pc \in Dispatching

\* C3: phase 2 accepts the fetched record iff its openTime parses and its
\* date is the reference date; a record it does not accept leaves no result,
\* raises nothing and ends the run only when the attempts are used up; an
\* accepted record is the one dispatched.
C3_Phase2AcceptsOnlyToday ==
    fetches[2] >= 1 =>
        /\ (lastOutcome = "accept") <=>
              /\ non_empty(lastResp)
              /\ strptime_ok(lastResp.items[1].rec.openTime)
              /\ open_date(lastResp.items[1].rec.openTime) = DateOfClock(glr_current_time)
        /\ lastOutcome # "accept" =>
              /\ result = <<>>
              /\ pc \in {"sleep", "fetch", "no_result", "failed"}
              /\ pc \in {"no_result", "failed"} => fetches[2] = PHASE2_RETRIES
        /\ lastOutcome = "accept" =>
              /\ acceptedPhase = 2
              /\ result = <<lastResp.items[1].rec>>
              /\ pc \in Dispatching

C3_Witness ==
    /\ acceptedPhase = 2
    /\ fetches[2] >= 2
    /\ dispatches = 1
    /\ open_date(result[1].openTime) = DateOfClock(glr_current_time)

\* C4 (as claimed): the gap wait sleeps exactly max(0, T2 - now), now being
\* the clock when phase 1 is exhausted, so that the first phase-2 fetch is
\* made at T2 when phase 1 ended before T2.
C4_GapSleepsUntilT2 ==
    gapSlept # -1 =>
        /\ gapSlept = Max(0, phase2_start(main_current_time) - gapNow)
        /\ (fetches[2] = 0 /\ gapNow < phase2_start(main_current_time)) =>
              now = phase2_start(main_current_time)

\* C5 (as claimed): no phase-2 fetch attempt is started after the dense
\* window's deadline (21:34:59) has passed.
C5_NoFetchAfterDeadline ==
    fetches[2] >= 1 => lastFetchAt <= phase2_deadline(main_current_time)

\* C6: at most PHASE1_RETRIES fetches in phase 1 and PHASE2_RETRIES in
\* phase 2, and once a result is accepted the accepting attempt stays the
\* last fetch attempt of the run.
C6_FetchBound ==
    /\ fetches[1] <= PHASE1_RETRIES
    /\ fetches[2] <= PHASE2_RETRIES
    /\ fetches[1] + fetches[2] <= PHASE1_RETRIES + PHASE2_RETRIES
    /\ fetches[2] >= 1 => fetches[1] = PHASE1_RETRIES
    /\ result # <<>> =>
          /\ pc \in Dispatching
          /\ lastOutcome = "accept"
          /\ fetches[acceptedPhase] = attempt

C6_Witness ==
    /\ fetches[1] = PHASE1_RETRIES
    /\ fetches[2] = PHASE2_RETRIES
    /\ result # <<>>
    /\ pc = "done"

\* C7: when every fetch attempt of both phases gave no qualifying result the
\* run ends FAILED with a non-zero exit status, and a run without a result
\* has made no chat POST and no email attempt.
C7_ExhaustedFails ==
    /\ result = <<>> => (dispatches = 0 /\ chatPosts = 0 /\ emailAttempts = 0)
    /\ (result = <<>> /\ fetches[1] = PHASE1_RETRIES /\ fetches[2] = PHASE2_RETRIES) =>
          pc \in {"no_result", "failed"}
    /\ pc = "failed" =>
          /\ exitStatus \notin {-1, 0}
          /\ result = <<>>
          /\ fetches[1] = PHASE1_RETRIES /\ fetches[2] = PHASE2_RETRIES
    /\ (pc \in Terminal /\ result = <<>>) => pc = "failed"

C7_Witness ==
    /\ pc = "failed"
    /\ exitStatus = 1
    /\ fetches[1] = PHASE1_RETRIES
    /\ fetches[2] = PHASE2_RETRIES

\* C8 (as claimed): every accepted record leads to DISPATCHED with the chat
\* POST made exactly once and at least one email attempt after it.
C8_AcceptedIsDispatched ==
    /\ result # <<>> => pc # "crashed"
    /\ (result # <<>> /\ pc \in Terminal) =>
          (pc = "done" /\ chatPosts = 1 /\ emailAttempts >= 1)

\* C9: send_email makes at most EMAIL_MAX_RETRIES attempts; it returns False
\* exactly when all EMAIL_MAX_RETRIES attempts failed, True when an attempt
\* succeeded, and no failed attempt raises out of it.
C9_EmailRetryBound ==
    /\ emailAttempts <= EMAIL_MAX_RETRIES
    /\ emailReturn = "False" => (emailAttempts = EMAIL_MAX_RETRIES /\ emailsSent = 0)
    /\ emailReturn = "True" => emailsSent >= 1
    /\ (emailsSent = 0 /\ emailAttempts = EMAIL_MAX_RETRIES) => emailReturn = "False"
    /\ emailsSent >= 1 => emailReturn = "True"
    /\ emailAttempts >= 1 => pc \in {"email_try", "email_sleep", "done"}

C9_Witness ==
    /\ emailReturn = "False"
    /\ emailAttempts = EMAIL_MAX_RETRIES
    /\ pc = "done"

\* C10 (as claimed): the process exits with status 0 exactly when a fetch
\* result was accepted, whatever the chat and email outcomes.
C10_ExitZeroIffAccepted ==
    exitStatus # -1 => (exitStatus = 0 <=> result # <<>>)

\* a response of one of the soft-failure kinds: network error, non-2xx,
\* malformed JSON, non-list payload, empty list, first record without openCode
soft_failure(resp) ==
    \/ resp.kind \in {"network_error", "http_error", "bad_json", "json_object"}
    \/ resp.kind = "json_list" /\ Len(resp.items) = 0
    \/ /\ resp.kind = "json_list"
       /\ Len(resp.items) > 0
       /\ resp.items[1].dict
       /\ (~resp.items[1].rec.openCode.present \/ resp.items[1].rec.openCode.val = <<>>)

\* C11: a soft-failure response is no result for its attempt: nothing is
\* accepted or raised, the attempt counts once in its phase, and the
\* controller goes on to the sleep before the next attempt, or (after the
\* phase's last attempt) to the gap wait / the final exit.
C11_FetchFailsSoft ==
    /\ pc \in {"sleep", "no_result"} => fetches[phase] = attempt
    /\ (pc = "fetch" /\ attempt > 1) => fetches[phase] = attempt - 1
    /\ (fetches[1] >= 1 /\ soft_failure(lastResp)) =>
          /\ lastOutcome \in {"exception", "invalid"}
          /\ result = <<>>
          /\ pc \in {"sleep", "fetch", "no_result", "failed"}
          /\ pc = "sleep" => attempt < max_retries(phase)
          /\ pc = "no_result" => attempt = max_retries(phase)
          /\ pc = "failed" => (phase = 2 /\ fetches[2] = PHASE2_RETRIES)

C11_Witness ==
    /\ phase = 2
    /\ pc = "sleep"
    /\ fetches[2] >= 2
    /\ lastResp = Resp("json_list", <<Obj(DrawNoCode)>>)

\* C14: a phase-2 fetch is made only after all PHASE1_RETRIES phase-1
\* attempts were made without a result, and, when the process started before
\* T2 (21:31:31), not before T2.
C14_PhaseOrder ==
    /\ (phase = 2 \/ fetches[2] >= 1) =>
          /\ fetches[1] = PHASE1_RETRIES
          /\ acceptedPhase # 1
    /\ (fetches[2] >= 1 /\ main_current_time < phase2_start(main_current_time)) =>
          lastFetchAt >= phase2_start(main_current_time)
    /\ (phase = 2 /\ pc = "fetch" /\ main_current_time < phase2_start(main_current_time)) =>
          now >= phase2_start(main_current_time)

C14_Witness ==
    /\ fetches[2] >= 1
    /\ main_current_time < phase2_start(main_current_time)
    /\ lastFetchAt >= phase2_start(main_current_time)

\* C15 (as claimed): a run ends only in DISPATCHED with exit status 0 or in
\* FAILED with a non-zero exit status.
C15_EndsDispatchedOrFailed ==
    (exitStatus # -1 \/ pc \in Terminal) =>
        \/ pc = "done" /\ exitStatus = 0
        \/ pc = "failed" /\ exitStatus \notin {-1, 0}

\* C16: inside a phase every sleep lasts the phase's interval and stands
\* between two attempts: k attempts are separated by k-1 sleeps, none follows
\* an accepted or a last attempt; likewise send_email with EMAIL_RETRY_DELAY.
C16_SleepCount ==
    /\ \A p \in 1..2 :
          /\ (pc = "fetch" /\ phase = p) => sleeps[p] = fetches[p]
          /\ (~(pc = "fetch" /\ phase = p) /\ fetches[p] >= 1) => sleeps[p] = fetches[p] - 1
          /\ fetches[p] = 0 => sleeps[p] = 0
    /\ pc = "email_try" => emailSleeps = emailAttempts
    /\ (pc # "email_try" /\ emailAttempts >= 1) => emailSleeps = emailAttempts - 1
    /\ emailAttempts = 0 => emailSleeps = 0

C16_SleepLength ==
    /\ \A p \in 1..2 :
          sleeps'[p] # sleeps[p] =>
              /\ sleeps'[p] = sleeps[p] + 1
              /\ now' = now + (IF p = 1 THEN PHASE1_INTERVAL ELSE PHASE2_INTERVAL)
              /\ fetches' = fetches
    /\ emailSleeps' # emailSleeps =>
          /\ emailSleeps' = emailSleeps + 1
          /\ now' = now + EMAIL_RETRY_DELAY
          /\ emailAttempts' = emailAttempts

C16_InterAttemptDelay == [](C16_SleepCount) /\ [][C16_SleepLength]_vars

C16_Witness ==
    /\ pc = "done"
    /\ sleeps[1] = PHASE1_RETRIES - 1
    /\ sleeps[2] = PHASE2_RETRIES - 1
    /\ emailSleeps = EMAIL_MAX_RETRIES - 1

\* C17 (as claimed): a phase-2 attempt accepts a record whose openTime date
\* is the local date at that attempt, also after the clock passed midnight
\* during phase 2.
C17_TodayAtTheAttempt ==
    (fetches[2] >= 1 /\ non_empty(lastResp)
        /\ strptime_ok(lastResp.items[1].rec.openTime)
        /\ open_date(lastResp.items[1].rec.openTime) = DateOfClock(lastFetchAt)) =>
            lastOutcome = "accept"

\* the whitespace-separated tokens of a line (str.split() without argument)
RECURSIVE tokens(_)
tokens(s) ==
    LET t == lstrip(s) IN
    IF Len(t) = 0 THEN <<>>
    ELSE LET n == IF \E k \in 1..Len(t) : IsSpace(t[k])
                  THEN CHOOSE k \in 1..Len(t) : IsSpace(t[k]) /\ \A j \in 1..(k - 1) : ~IsSpace(t[j])
                  ELSE Len(t) + 1
         IN <<SubSeq(t, 1, n - 1)>> \o tokens(SubSeq(t, n, Len(t)))

\* sub occurs in s
Contains(s, sub) ==
    \E i \in 0..(Len(s) - Len(sub)) : SubSeq(s, i + 1, i + Len(sub)) = sub

\* every part is non-empty and free of whitespace
clean(parts) ==
    \A i \in 1..Len(parts) :
        Len(parts[i]) > 0 /\ \A j \in 1..Len(parts[i]) : ~IsSpace(parts[i][j])

rjust(s, w) == IF w > Len(s) THEN [i \in 1..(w - Len(s)) |-> " "] \o s ELSE s

in_numbers == split(result[1].openCode.val, ",")
in_zodiacs == split(result[1].zodiac.val, ",")
in_waves == split(result[1].wave.val, ",")
in_stripped_waves == [i \in 1..Len(in_waves) |-> strip(in_waves[i])]

equal_cardinality ==
    Len(in_numbers) = Len(in_zodiacs) /\ Len(in_numbers) = Len(in_waves)

\* the first three lines of the text hold the record's N numbers, N color
\* labels and N zodiac labels as tokens, in order; the body holds N items
n_tokens_each ==
    LET lines == split(message, "\n") IN
    /\ tokens(lines[1]) = in_numbers
    /\ tokens(lines[2]) =
          [i \in 1..Len(in_waves) |-> wave_mapping(lower(in_stripped_waves[i]))]
    /\ tokens(lines[3]) = in_zodiacs
    /\ Len(body[1].number_items) = Len(in_numbers)
    /\ \A i \in 1..Len(in_numbers) :
          /\ body[1].number_items[i].num = in_numbers[i]
          /\ body[1].number_items[i].zodiac = in_zodiacs[i]

\* C12 (as claimed): for every record whose three fields split into the same
\* number N of parts, the text's first three lines hold exactly N number
\* tokens, N color labels and N zodiac labels in order, and the body N items.
C12_NTokensForEqualCardinality ==
    (pc = "formatted" /\ equal_cardinality) => n_tokens_each

\* C12 (amended): the same, for records whose numbers and zodiac labels are
\* non-empty and free of whitespace and whose wave tags are so once stripped.
C12_NTokensForCleanFields ==
    (pc = "formatted" /\ equal_cardinality /\ clean(in_numbers) /\ clean(in_zodiacs)
        /\ clean(in_stripped_waves)) => n_tokens_each

C12_Witness ==
    /\ pc = "formatted"
    /\ equal_cardinality
    /\ clean(in_numbers) /\ clean(in_zodiacs) /\ clean(in_stripped_waves)
    /\ Len(in_numbers) = 4
    /\ Len(tokens(split(message, "\n")[2])) = 4

\* the scenario: phase-1 attempt 1 returned the record {openCode "1,2,3",
\* zodiac "Rat,Ox,Tiger", wave "red,blue,green", openTime "2024-05-01
\* 21:30:00", expect "123"}
scenario ==
    /\ fetches[1] = 1
    /\ fetches[2] = 0
    /\ lastResp = Resp("json_list", <<Obj(DrawToday)>>)

dispatched_at_once ==
    /\ pc \in Dispatching
    /\ result = <<DrawToday>>
    /\ sleeps[1] = 0
    /\ pc # "got_result" => (pc # "crashed" /\ message # <<>>)

Expect123Text == <<"U+671F", "U+865F", "U+FF1A", "1", "2", "3", "U+671F">>

\* C13 (as claimed): in the scenario the controller dispatches at once and
\* the text has three right-aligned number columns, the substring of the
\* color labels separated by single spaces, and the period literal.
C13_ScenarioRightAligned ==
    scenario =>
        /\ dispatched_at_once
        /\ message # <<>> =>
              /\ \E w \in 1..5 :
                    split(message, "\n")[1] = join([i \in 1..3 |-> rjust(in_numbers[i], w)])
              /\ Contains(message, <<"U+7EA2", " ", "U+84DD", " ", "U+7EFF">>)
              /\ Contains(message, Expect123Text)

\* C13 (amended): in the scenario the controller dispatches at once and the
\* text has three left-aligned number columns (each number padded on the
\* right to width 3), the color labels in order each followed by two spaces,
\* and the period literal.
C13_ScenarioLeftAligned ==
    scenario =>
        /\ dispatched_at_once
        /\ message # <<>> =>
              /\ split(message, "\n")[1] = <<"1", " ", " ", "2", " ", " ", "3", " ", " ">>
              /\ Contains(message, <<"U+7EA2", " ", " ", "U+84DD", " ", " ", "U+7EFF">>)
              /\ Contains(message, Expect123Text)

C13_Witness ==
    /\ scenario
    /\ pc = "done"
    /\ chatPosts = 1
    /\ message # <<>>

\* C18 (as claimed): the notification time is captured once, not before the
\* accepting fetch; the text and the HTML body carry that same time, also
\* through the email retries.
C18_OneNotificationTime ==
    body # <<>> =>
        \E t \in lastFetchAt..now :
            /\ SubSeq(message, Len(message) - 18, Len(message)) = strftime(t)
            /\ body[1].notification_time = strftime(t)

====
